---- MODULE Spec2Model ----
(***************************************************************************)
(* Model of matrix/elementary.py: the three elementary row operations      *)
(* (rowswap, rowscale, rowreplacement) and Gauss-Jordan rref.              *)
(*                                                                         *)
(* Tensors live in a small heap (store) so that copying and aliasing are   *)
(* visible.  Matrix elements are exact rationals <<num, den>> in lowest    *)
(* terms: the comparisons against eps and the row arithmetic are modelled  *)
(* exactly; IEEE rounding of float64 is outside the model.                 *)
(***************************************************************************)
EXTENDS Integers, FiniteSets, Sequences, TLC

VARIABLES store, inRef, outRef, orig, ret, call, err, pc,
          M, eps, r, c, pivot_row, rr, pivcols, rowargs, factors

vars == <<store, inRef, outRef, orig, ret, call, err, pc,
          M, eps, r, c, pivot_row, rr, pivcols, rowargs, factors>>

(* ------------------------------ bounds --------------------------------- *)
MaxRows == 2
MaxCols == 2
Den == 4
NegNum == 1
MaxNum == 2
MaxOpNum == 2
MaxEpsNum == 1
MaxAddr == 3

(* --------------------------- float values ------------------------------ *)
Abs(n) == IF n < 0 THEN -n ELSE n

RECURSIVE GCD(_, _)
GCD(a, b) == IF b = 0 THEN a ELSE GCD(b, a % b)

Rat(n, d) ==
    LET g == GCD(Abs(n), Abs(d))
        s == IF d < 0 THEN -1 ELSE 1
    IN  <<(s * n) \div g, (s * d) \div g>>

Zero == <<0, 1>>
One == <<1, 1>>

RAdd(x, y) == Rat(x[1] * y[2] + y[1] * x[2], x[2] * y[2])
RMul(x, y) == Rat(x[1] * y[1], x[2] * y[2])
RNeg(x) == <<-x[1], x[2]>>
RAbs(x) == <<Abs(x[1]), x[2]>>
RInv(x) == Rat(x[2], x[1])
RLt(x, y) == x[1] * y[2] < y[1] * x[2]
RGt(x, y) == RLt(y, x)
RLe(x, y) == ~RLt(y, x)

(* ------------------------------ inputs --------------------------------- *)
Vals == {Rat(n, Den) : n \in (-NegNum)..MaxNum}
OpVals == {Rat(n, Den) : n \in 0..MaxOpNum}
Scales == {RNeg(One), Rat(1, 2), One}
EpsVals == {Rat(n, Den) : n \in 0..MaxEpsNum}

Matrices(V) ==
    UNION {UNION {{[rows |-> nr, cols |-> nc, a |-> f] :
                      f \in [0..(nr - 1) -> [0..(nc - 1) -> V]]} :
                  nc \in 0..MaxCols} : nr \in 0..MaxRows}

(* ------------------------------- heap ---------------------------------- *)
Addr == 1..MaxAddr
NoRef == 0
NoMat == [rows |-> -1, cols |-> -1, a |-> <<>>]

Fresh(live) == CHOOSE x \in Addr \ live : \A y \in Addr \ live : x <= y

Collect(st, live) == [x \in Addr |-> IF x \in live THEN st[x] ELSE NoMat]

\* _as_float_tensor without the final clone(): the result aliases its input.
as_float_tensor_shared(st, A, live) == [st |-> st, ref |-> A]

\* _as_float_tensor: always returns a fresh tensor holding a copy of A.
as_float_tensor(st, A, live) ==
    LET new == Fresh(live)
    IN  [st |-> [st EXCEPT ![new] = st[A]], ref |-> new]

(* ---------------------------- row indexing ----------------------------- *)
\* A tensor row index is accepted iff it lies in [-rows, rows).
ValidIndex(i, rows) == -rows <= i /\ i < rows

\* Negative indices count from the last row.
RowOf(i, rows) == IF i < 0 THEN i + rows ELSE i

(* ------------------- in-place mutations of a tensor -------------------- *)
\* M[i, :] = M[j, :]; M[j, :] = M[i, :]  (no temporary: row i is lost)
SwapRowsNoTemp(m, i, j) ==
    LET ri == RowOf(i, m.rows)
        rj == RowOf(j, m.rows)
    IN  [m EXCEPT !.a = [x \in 0..(m.rows - 1) |->
                            IF x = ri THEN m.a[rj] ELSE m.a[x]]]

\* M[[i, j], :] = M[[j, i], :]
SwapRows(m, i, j) ==
    LET ri == RowOf(i, m.rows)
        rj == RowOf(j, m.rows)
    IN  [m EXCEPT !.a = [x \in 0..(m.rows - 1) |->
                            IF x = ri THEN m.a[rj]
                            ELSE IF x = rj THEN m.a[ri]
                            ELSE m.a[x]]]

\* M[i, :] = factor * M[i, :]
ScaleRow(m, i, factor) ==
    LET ri == RowOf(i, m.rows)
    IN  [m EXCEPT !.a[ri] = [k \in 0..(m.cols - 1) |-> RMul(factor, m.a[ri][k])]]

\* M[i, :] = j_scale * M[j, :] + k_scale * M[j, :]  (wrong source row)
ReplaceRowWrong(m, i, j, j_scale, k_scale) ==
    LET ri == RowOf(i, m.rows)
        rj == RowOf(j, m.rows)
    IN  [m EXCEPT !.a[ri] = [k \in 0..(m.cols - 1) |->
            RAdd(RMul(j_scale, m.a[rj][k]), RMul(k_scale, m.a[rj][k]))]]

\* M[i, :] = j_scale * M[i, :] + k_scale * M[j, :]
ReplaceRow(m, i, j, j_scale, k_scale) ==
    LET ri == RowOf(i, m.rows)
        rj == RowOf(j, m.rows)
    IN  [m EXCEPT !.a[ri] = [k \in 0..(m.cols - 1) |->
            RAdd(RMul(j_scale, m.a[ri][k]), RMul(k_scale, m.a[rj][k]))]]

\* M[abs(M) < eps] = 0.0
Cleanup(m, e) ==
    [m EXCEPT !.a = [x \in 0..(m.rows - 1) |-> [k \in 0..(m.cols - 1) |->
                        IF RLt(RAbs(m.a[x][k]), e) THEN Zero ELSE m.a[x][k]]]]

(* ---------------- the elementary operations on the heap ---------------- *)
\* Each returns the new heap, the returned reference and the error raised.
rowswap(st, A, i, j, live) ==
    LET cl == as_float_tensor(st, A, live)
        m == cl.st[cl.ref]
    IN  IF ValidIndex(i, m.rows) /\ ValidIndex(j, m.rows)
        THEN [st |-> [cl.st EXCEPT ![cl.ref] = SwapRows(m, i, j)],
              ref |-> cl.ref, err |-> "none"]
        ELSE [st |-> st, ref |-> NoRef, err |-> "IndexError"]

rowscale(st, A, i, factor, live) ==
    LET cl == as_float_tensor(st, A, live)
        m == cl.st[cl.ref]
    IN  IF ValidIndex(i, m.rows)
        THEN [st |-> [cl.st EXCEPT ![cl.ref] = ScaleRow(m, i, factor)],
              ref |-> cl.ref, err |-> "none"]
        ELSE [st |-> st, ref |-> NoRef, err |-> "IndexError"]

rowreplacement(st, A, i, j, j_scale, k_scale, live) ==
    LET cl == as_float_tensor(st, A, live)
        m == cl.st[cl.ref]
    IN  IF ValidIndex(i, m.rows) /\ ValidIndex(j, m.rows)
        THEN [st |-> [cl.st EXCEPT ![cl.ref] = ReplaceRow(m, i, j, j_scale, k_scale)],
              ref |-> cl.ref, err |-> "none"]
        ELSE [st |-> st, ref |-> NoRef, err |-> "IndexError"]

(* --------------------------- rref: helpers ----------------------------- *)
NoRow == -1

\* for rr in range(r, rows): ... if val >= max_val (a non-strict comparison)
RECURSIVE ScanLast(_, _, _, _, _)
ScanLast(m, cc, from, max_val, prow) ==
    IF from >= m.rows THEN prow
    ELSE LET val == RAbs(m.a[from][cc])
         IN  IF RLe(max_val, val)
             THEN ScanLast(m, cc, from + 1, val, from)
             ELSE ScanLast(m, cc, from + 1, max_val, prow)

\* for rr in range(r, rows): val = abs(M[rr, c]); if val > max_val: ...
RECURSIVE Scan(_, _, _, _, _)
Scan(m, cc, from, max_val, prow) ==
    IF from >= m.rows THEN prow
    ELSE LET val == RAbs(m.a[from][cc])
         IN  IF RGt(val, max_val)
             THEN Scan(m, cc, from + 1, val, from)
             ELSE Scan(m, cc, from + 1, max_val, prow)

\* pivot_row after the scan, starting from max_val = eps, pivot_row = None
FindPivotRow(m, r0, cc, e) == Scan(m, cc, r0, e, NoRow)

\* range(rows + 1): one row too many
ElimEndOff(rows) == rows + 1

\* for rr in range(rows)
ElimEnd(rows) == rows

Cur == store[M]

\* The inner elimination loop of rref from row `row` on, as a function.
RECURSIVE ElimFrom(_, _, _, _, _)
ElimFrom(m, r0, cc, e, row) ==
    IF row >= ElimEnd(m.rows) THEN m
    ELSE IF row = r0 THEN ElimFrom(m, r0, cc, e, row + 1)
    ELSE LET factor == m.a[row][cc]
         IN  IF RGt(RAbs(factor), e)
             THEN ElimFrom(ReplaceRow(m, row, r0, One, RNeg(factor)), r0, cc, e, row + 1)
             ELSE ElimFrom(m, r0, cc, e, row + 1)

\* The column loop of rref from column cc on with cursor r0, as a function.
RECURSIVE Columns(_, _, _, _)
Columns(m, r0, cc, e) ==
    IF cc >= m.cols \/ r0 >= m.rows THEN m
    ELSE LET p == FindPivotRow(m, r0, cc, e)
         IN  IF p = NoRow THEN Columns(m, r0, cc + 1, e)
             ELSE LET sw == IF p # r0 THEN SwapRows(m, r0, p) ELSE m
                      pivot == sw.a[r0][cc]
                      sc == IF RGt(RAbs(pivot), e)
                            THEN ScaleRow(sw, r0, RInv(pivot)) ELSE sw
                      el == ElimFrom(sc, r0, cc, e, 0)
                  IN  IF r0 + 1 = m.rows THEN el
                      ELSE Columns(el, r0 + 1, cc + 1, e)

\* rref(A, eps) as a function of the matrix value.
rref(m, e) == Cleanup(Columns(m, 0, 0, e), e)

(* ------------------------------ actions -------------------------------- *)
NoCall == [op |-> "none", i |-> 0, j |-> 0, factor |-> Zero,
           j_scale |-> Zero, k_scale |-> Zero]

InitWith(V) ==
    /\ \E A \in Matrices(V) :
          /\ store = [x \in Addr |-> IF x = 1 THEN A ELSE NoMat]
          /\ orig = A
    /\ inRef = 1
    /\ outRef = NoRef
    /\ ret = NoMat
    /\ call = NoCall
    /\ err = "none"
    /\ pc = "idle"
    /\ M = NoRef
    /\ eps = Zero
    /\ r = 0
    /\ c = 0
    /\ pivot_row = NoRow
    /\ rr = 0
    /\ pivcols = <<>>
    /\ rowargs = {}
    /\ factors = {}

Init == InitWith(OpVals)

InitRref == InitWith(Vals)

rrefLocals == <<M, eps, r, c, pivot_row, rr, pivcols, rowargs, factors>>

\* The caller receives the outcome res of an elementary operation.
Return(res, cl) ==
    /\ store' = Collect(res.st, {inRef, res.ref} \ {NoRef})
    /\ outRef' = res.ref
    /\ ret' = IF res.ref = NoRef THEN NoMat ELSE res.st[res.ref]
    /\ err' = res.err
    /\ call' = cl
    /\ pc' = "done"
    /\ UNCHANGED <<inRef, orig, rrefLocals>>

Indices == (-(MaxRows + 1))..MaxRows

RowSwap ==
    /\ pc = "idle"
    /\ \E i \in Indices, j \in Indices :
          Return(rowswap(store, inRef, i, j, {inRef}),
                 [NoCall EXCEPT !.op = "rowswap", !.i = i, !.j = j])

RowScale ==
    /\ pc = "idle"
    /\ \E i \in Indices, factor \in Vals :
          Return(rowscale(store, inRef, i, factor, {inRef}),
                 [NoCall EXCEPT !.op = "rowscale", !.i = i, !.factor = factor])

RowReplacement ==
    /\ pc = "idle"
    /\ \E i \in Indices, j \in Indices, j_scale \in Scales, k_scale \in Scales :
          Return(rowreplacement(store, inRef, i, j, j_scale, k_scale, {inRef}),
                 [NoCall EXCEPT !.op = "rowreplacement", !.i = i, !.j = j,
                                !.j_scale = j_scale, !.k_scale = k_scale])

\* rref, lines 47-49: M = _as_float_tensor(A); r = 0
RrefEnter ==
    /\ pc = "idle"
    /\ \E e \in EpsVals :
          LET cl == as_float_tensor(store, inRef, {inRef})
          IN  /\ store' = cl.st
              /\ M' = cl.ref
              /\ eps' = e
    /\ call' = [NoCall EXCEPT !.op = "rref"]
    /\ r' = 0
    /\ c' = 0
    /\ pc' = "loop"
    /\ UNCHANGED <<inRef, outRef, orig, ret, err, pivot_row, rr, pivcols,
                   rowargs, factors>>

\* The column loop is exhausted, or r >= rows breaks out of it.
LoopExit ==
    /\ pc = "loop"
    /\ c >= Cur.cols \/ r >= Cur.rows
    /\ pc' = "cleanup"
    /\ UNCHANGED <<store, inRef, outRef, orig, ret, call, err, rrefLocals>>

\* pivot_row is None: continue with the next column.
NoPivot ==
    /\ pc = "loop"
    /\ c < Cur.cols /\ r < Cur.rows
    /\ FindPivotRow(Cur, r, c, eps) = NoRow
    /\ c' = c + 1
    /\ UNCHANGED <<store, inRef, outRef, orig, ret, call, err, pc,
                   M, eps, r, pivot_row, rr, pivcols, rowargs, factors>>

FindPivot ==
    /\ pc = "loop"
    /\ c < Cur.cols /\ r < Cur.rows
    /\ FindPivotRow(Cur, r, c, eps) # NoRow
    /\ pivot_row' = FindPivotRow(Cur, r, c, eps)
    /\ pivcols' = Append(pivcols, c)
    /\ pc' = "swap"
    /\ UNCHANGED <<store, inRef, outRef, orig, ret, call, err,
                   M, eps, r, c, rr, rowargs, factors>>

\* rref receives the outcome res of an elementary operation it called.
Called(res, next) ==
    /\ store' = Collect(res.st, {inRef, res.ref} \ {NoRef})
    /\ M' = res.ref
    /\ err' = res.err
    /\ pc' = IF res.err = "none" THEN next ELSE "done"
    /\ UNCHANGED <<inRef, outRef, orig, ret, call>>

\* if pivot_row != r: M = rowswap(M, r, pivot_row)
SwapPivot ==
    /\ pc = "swap"
    /\ pivot_row # r
    /\ Called(rowswap(store, M, r, pivot_row, {inRef, M}), "scale")
    /\ rowargs' = rowargs \cup {r, pivot_row}
    /\ UNCHANGED <<eps, r, c, pivot_row, rr, pivcols, factors>>

KeepPivot ==
    /\ pc = "swap"
    /\ pivot_row = r
    /\ pc' = "scale"
    /\ UNCHANGED <<store, inRef, outRef, orig, ret, call, err,
                   M, eps, r, c, pivot_row, rr, pivcols, rowargs, factors>>

\* pivot = M[r, c]; if abs(pivot) > eps: M = rowscale(M, r, 1.0 / pivot)
ScalePivot ==
    /\ pc = "scale"
    /\ LET pivot == Cur.a[r][c]
       IN  IF RGt(RAbs(pivot), eps)
           THEN IF pivot = Zero
                THEN /\ err' = "ZeroDivisionError"
                     /\ pc' = "done"
                     /\ UNCHANGED <<store, inRef, outRef, orig, ret, call, M,
                                    rowargs, factors>>
                ELSE /\ Called(rowscale(store, M, r, RInv(pivot), {inRef, M}), "elim")
                     /\ rowargs' = rowargs \cup {r}
                     /\ factors' = factors \cup {RInv(pivot)}
           ELSE /\ pc' = "elim"
                /\ UNCHANGED <<store, inRef, outRef, orig, ret, call, err, M,
                               rowargs, factors>>
    /\ rr' = 0
    /\ UNCHANGED <<eps, r, c, pivot_row, pivcols>>

\* if rr == r: continue
ElimSelf ==
    /\ pc = "elim"
    /\ rr < ElimEnd(Cur.rows)
    /\ rr = r
    /\ rr' = rr + 1
    /\ UNCHANGED <<store, inRef, outRef, orig, ret, call, err, pc,
                   M, eps, r, c, pivot_row, pivcols, rowargs, factors>>

\* Reading M[rr, c] outside the tensor raises.
ElimRead(row) == IF ValidIndex(row, Cur.rows) THEN Cur.a[RowOf(row, Cur.rows)][c] ELSE Zero

\* factor = M[rr, c]; abs(factor) > eps is false
ElimSmall ==
    /\ pc = "elim"
    /\ rr < ElimEnd(Cur.rows)
    /\ rr # r
    /\ ValidIndex(rr, Cur.rows)
    /\ ~RGt(RAbs(ElimRead(rr)), eps)
    /\ rr' = rr + 1
    /\ UNCHANGED <<store, inRef, outRef, orig, ret, call, err, pc,
                   M, eps, r, c, pivot_row, pivcols, rowargs, factors>>

\* M = rowreplacement(M, rr, r, j_scale=1.0, k_scale=-factor)
ElimRow ==
    /\ pc = "elim"
    /\ rr < ElimEnd(Cur.rows)
    /\ rr # r
    /\ ~ValidIndex(rr, Cur.rows) \/ RGt(RAbs(ElimRead(rr)), eps)
    /\ IF ~ValidIndex(rr, Cur.rows)
       THEN /\ err' = "IndexError"
            /\ pc' = "done"
            /\ UNCHANGED <<store, inRef, outRef, orig, ret, call, M>>
       ELSE Called(rowreplacement(store, M, rr, r, One, RNeg(ElimRead(rr)),
                                  {inRef, M}), "elim")
    /\ rowargs' = rowargs \cup {rr, r}
    /\ rr' = rr + 1
    /\ UNCHANGED <<eps, r, c, pivot_row, pivcols, factors>>

\* r += 1; if r == rows: break
AdvanceBreak ==
    /\ pc = "elim"
    /\ rr >= ElimEnd(Cur.rows)
    /\ r + 1 = Cur.rows
    /\ r' = r + 1
    /\ pc' = "cleanup"
    /\ UNCHANGED <<store, inRef, outRef, orig, ret, call, err,
                   M, eps, c, pivot_row, rr, pivcols, rowargs, factors>>

\* r += 1; next iteration of the column loop
AdvanceNext ==
    /\ pc = "elim"
    /\ rr >= ElimEnd(Cur.rows)
    /\ r + 1 # Cur.rows
    /\ r' = r + 1
    /\ c' = c + 1
    /\ pc' = "loop"
    /\ UNCHANGED <<store, inRef, outRef, orig, ret, call, err,
                   M, eps, pivot_row, rr, pivcols, rowargs, factors>>

\* M[abs(M) < eps] = 0.0; return M
CleanupReturn ==
    /\ pc = "cleanup"
    /\ store' = [store EXCEPT ![M] = Cleanup(@, eps)]
    /\ outRef' = M
    /\ ret' = Cleanup(Cur, eps)
    /\ pc' = "done"
    /\ UNCHANGED <<inRef, orig, call, err, rrefLocals>>

\* After the call the caller changes an element of its own matrix ...
WriteInput ==
    /\ pc = "done"
    /\ orig.rows > 0 /\ orig.cols > 0
    /\ store' = [store EXCEPT ![inRef].a[0][0] = RAdd(@, One)]
    /\ orig' = [orig EXCEPT !.a[0][0] = RAdd(@, One)]
    /\ pc' = "written"
    /\ UNCHANGED <<inRef, outRef, ret, call, err, rrefLocals>>

\* ... or an element of the matrix that was returned.
WriteResult ==
    /\ pc = "done"
    /\ outRef # NoRef
    /\ ret.rows > 0 /\ ret.cols > 0
    /\ store' = [store EXCEPT ![outRef].a[0][0] = RAdd(@, One)]
    /\ ret' = [ret EXCEPT !.a[0][0] = RAdd(@, One)]
    /\ pc' = "written"
    /\ UNCHANGED <<inRef, outRef, orig, call, err, rrefLocals>>

NextRref ==
    \/ RrefEnter
    \/ LoopExit
    \/ NoPivot
    \/ FindPivot
    \/ SwapPivot
    \/ KeepPivot
    \/ ScalePivot
    \/ ElimSelf
    \/ ElimSmall
    \/ ElimRow
    \/ AdvanceBreak
    \/ AdvanceNext
    \/ CleanupReturn

Next ==
    \/ RowSwap
    \/ RowScale
    \/ RowReplacement
    \/ NextRref
    \/ WriteInput
    \/ WriteResult

Spec == Init /\ [][Next]_vars

SpecRref == InitRref /\ [][NextRref]_vars

(* ------------------------------ claims --------------------------------- *)
RrefReturned == pc = "done" /\ call.op = "rref" /\ err = "none"

RowSet(m) == 0..(m.rows - 1)
ColSet(m) == 0..(m.cols - 1)

\* C1: in the output of rref every pivot column holds a 1 in its pivot row
\* and 0 in every other row.
C1_PivotColumnsAreUnit ==
    RrefReturned =>
        \A p \in 1..Len(pivcols) : \A x \in RowSet(ret) :
            ret.a[x][pivcols[p]] = IF x = p - 1 THEN One ELSE Zero

\* C2: the output of rref is in reduced row echelon form: with k pivots the
\* pivot of row p (p < k) is the first nonzero entry of that row, equals 1 and
\* sits in the p-th pivot column, the pivot columns increase strictly, and
\* the rows from k on are entirely zero.
C2_OutputIsEchelon ==
    RrefReturned =>
        LET k == Len(pivcols)
        IN  /\ k <= ret.rows
            /\ \A p \in 1..k :
                  /\ ret.a[p - 1][pivcols[p]] = One
                  /\ \A q \in ColSet(ret) : q < pivcols[p] => ret.a[p - 1][q] = Zero
                  /\ p < k => pivcols[p] < pivcols[p + 1]
            /\ \A x \in RowSet(ret) : x >= k =>
                  \A q \in ColSet(ret) : ret.a[x][q] = Zero

\* C3: rref is idempotent: applying rref with the same eps to its own output
\* returns that output element for element.
C3_RrefIdempotent == RrefReturned => rref(ret, eps) = ret

\* C4: rowswap, rowscale and rowreplacement raise an index error exactly when
\* some row index argument lies outside [0, rows), negative indices included.
CallIndices ==
    IF call.op = "rowscale" THEN {call.i} ELSE {call.i, call.j}

ElementaryReturned ==
    pc = "done" /\ call.op \in {"rowswap", "rowscale", "rowreplacement"}

C4_IndexErrorOutsideZeroToRows ==
    ElementaryReturned =>
        (err = "IndexError" <=> ~(CallIndices \subseteq RowSet(orig)))

\* C5: for every operation the caller's matrix holds the same values during
\* and after the call as before it, whether the call returns or raises; the
\* returned matrix lives in storage of its own, so a later write to either
\* matrix does not show in the other.
C5_InputUntouchedNoSharing ==
    /\ store[inRef] = orig
    /\ pc \in {"loop", "swap", "scale", "elim", "cleanup"} => M # inRef
    /\ outRef # NoRef => outRef # inRef /\ store[outRef] = ret

C5_Witness ==
    /\ pc = "written"
    /\ call.op \in {"rowswap", "rref"}
    /\ outRef # NoRef
    /\ store[inRef] # store[outRef]
    /\ orig.rows = 2

\* C6: no element x of the output of rref satisfies 0 < |x| <= eps.
C6_NothingAtOrBelowEps ==
    RrefReturned =>
        \A x \in RowSet(ret) : \A q \in ColSet(ret) :
            ~(RLt(Zero, RAbs(ret.a[x][q])) /\ RLe(RAbs(ret.a[x][q]), eps))

\* C7: rowreplacement with valid i and j returns a matrix whose row i is
\* j_scale * row_i + k_scale * row_j of the input and whose other rows are the
\* input's rows; for i = j row i is (j_scale + k_scale) * row_i.
C7_RowReplacementResult ==
    (pc = "done" /\ call.op = "rowreplacement"
        /\ {call.i, call.j} \subseteq RowSet(orig)) =>
        /\ err = "none"
        /\ ret.rows = orig.rows /\ ret.cols = orig.cols
        /\ \A x \in RowSet(orig) : \A q \in ColSet(orig) :
              ret.a[x][q] =
                 IF x = call.i
                 THEN RAdd(RMul(call.j_scale, orig.a[call.i][q]),
                           RMul(call.k_scale, orig.a[call.j][q]))
                 ELSE orig.a[x][q]
        /\ call.i = call.j =>
              \A q \in ColSet(orig) :
                 ret.a[call.i][q] =
                    RMul(RAdd(call.j_scale, call.k_scale), orig.a[call.i][q])

C7_Witness ==
    /\ pc = "done" /\ call.op = "rowreplacement" /\ err = "none"
    /\ call.i = 0 /\ call.j = 1
    /\ call.j_scale = One /\ call.k_scale = RNeg(One)
    /\ orig.cols = 2
    /\ ret.a[0] # orig.a[0]
    /\ ret.a[1] = orig.a[1]

\* C8: rowswap is an involution: for valid i # j swapping the rows of the
\* result again gives back the input, and rowswap(M, i, i) equals M.
C8_RowSwapInvolution ==
    (pc = "done" /\ call.op = "rowswap"
        /\ {call.i, call.j} \subseteq RowSet(orig)) =>
        /\ err = "none"
        /\ LET again == rowswap(store, outRef, call.i, call.j, {inRef, outRef})
           IN  again.err = "none" /\ again.st[again.ref] = orig
        /\ call.i = call.j => ret = orig

C8_Witness ==
    /\ pc = "done" /\ call.op = "rowswap" /\ err = "none"
    /\ call.i = 0 /\ call.j = 1
    /\ orig.cols = 2
    /\ ret # orig
    /\ ret.a[0] = orig.a[1] /\ ret.a[1] = orig.a[0]

\* C9: rref raises no error and terminates: the cursor r stays in 0..rows,
\* every row index passed to an elementary operation lies in [0, rows), the
\* pivot divided by is nonzero and no row is scaled by zero; every step
\* lowers a non-negative bound on the number of steps left.
C9_RrefSafeState ==
    /\ err = "none"
    /\ 0 <= r /\ r <= orig.rows
    /\ rowargs \subseteq RowSet(orig)
    /\ Zero \notin factors
    /\ pc = "scale" => Cur.a[r][c] # Zero

\* An upper bound on the number of steps rref still has to take.
C9_Rank ==
    LET K == orig.rows + 5
    IN  CASE pc = "idle" -> (orig.cols + 1) * K + 2
          [] pc = "loop" -> (orig.cols - c) * K + orig.rows + 6
          [] pc = "swap" -> (orig.cols - c) * K + orig.rows + 5
          [] pc = "scale" -> (orig.cols - c) * K + orig.rows + 4
          [] pc = "elim" -> (orig.cols - c) * K + orig.rows + 3 - rr
          [] pc = "cleanup" -> 1
          [] OTHER -> 0

C9_Progress == C9_Rank' < C9_Rank /\ C9_Rank' >= 0

C9_RrefNeverFails == []C9_RrefSafeState /\ [][C9_Progress]_vars

C9_Witness ==
    /\ pc = "done" /\ call.op = "rref"
    /\ Len(pivcols) = 2
    /\ rowargs = {0, 1}
    /\ Cardinality(factors) = 2

\* C10: for a column processed with r < rows the pivot row chosen is the
\* lowest-index row among r..rows-1 whose absolute value in the column is the
\* maximum over those rows, provided that maximum exceeds eps; otherwise no
\* row operation is applied for the column and r is left unchanged.
ColAbs(x) == RAbs(Cur.a[x][c])

IsMaxRow(x) == \A y \in r..(Cur.rows - 1) : RLe(ColAbs(y), ColAbs(x))

C10_Step ==
    (pc = "loop" /\ c < Cur.cols /\ r < Cur.rows) =>
        IF \E x \in r..(Cur.rows - 1) : RGt(ColAbs(x), eps)
        THEN /\ pc' = "swap"
             /\ pivot_row' \in r..(Cur.rows - 1)
             /\ IsMaxRow(pivot_row')
             /\ \A x \in r..(Cur.rows - 1) : IsMaxRow(x) => pivot_row' <= x
             /\ UNCHANGED <<store, M, r, c>>
        ELSE /\ pc' = "loop"
             /\ c' = c + 1
             /\ UNCHANGED <<store, M, r, rowargs, factors, pivcols>>

C10_PivotSelection == [][C10_Step]_vars

C10_Witness ==
    /\ pc = "swap"
    /\ pivot_row = r
    /\ \E x \in (r + 1)..(Cur.rows - 1) : ColAbs(x) = ColAbs(pivot_row)

====
